---- MODULE Spec2Model ----
(***************************************************************************)
(* Model of projeto_clima_porto_alegre.py: loading of the daily weather    *)
(* CSV (header mapping, date and number coercion), the interval filter,    *)
(* the wettest-month and yearly-minimum aggregations, and the menu loop.   *)
(*                                                                         *)
(* Text is a tuple of one-character strings.  A float is a record          *)
(* [k, n, d]: k = "fin" is the exact rational n/d (d > 0, reduced), "nan"  *)
(* is NaN, "inf" is the infinity of sign n, and "None" is Python's None.   *)
(* Rounding of binary floating point is not modelled.                      *)
(***************************************************************************)
EXTENDS Integers, Sequences, FiniteSets

(***************************************************************************)
(* Text helpers: str.strip, str.lower, str.startswith, str.replace         *)
(***************************************************************************)
IsSpace(c) == c \in {" ", "\t", "\n", "\r"}

RECURSIVE LStrip(_)
LStrip(s) == IF s # <<>> /\ IsSpace(Head(s)) THEN LStrip(Tail(s)) ELSE s

RECURSIVE RStrip(_)
RStrip(s) ==
  IF s # <<>> /\ IsSpace(s[Len(s)]) THEN RStrip(SubSeq(s, 1, Len(s) - 1)) ELSE s

Strip(s) == RStrip(LStrip(s))

Maiusculas == <<"A","B","C","D","E","F","G","H","I","J","K","L","M",
                "N","O","P","Q","R","S","T","U","V","W","X","Y","Z">>
Minusculas == <<"a","b","c","d","e","f","g","h","i","j","k","l","m",
                "n","o","p","q","r","s","t","u","v","w","x","y","z">>

LowerC(c) ==
  IF \E i \in 1..Len(Maiusculas) : Maiusculas[i] = c
  THEN Minusculas[CHOOSE i \in 1..Len(Maiusculas) : Maiusculas[i] = c]
  ELSE c

Lower(s) == [i \in 1..Len(s) |-> LowerC(s[i])]

StartsWith(s, p) == Len(p) <= Len(s) /\ SubSeq(s, 1, Len(p)) = p

ReplaceComma(s) == [i \in 1..Len(s) |-> IF s[i] = "," THEN "." ELSE s[i]]

Digitos == <<"0","1","2","3","4","5","6","7","8","9">>

IsDigit(c) == \E i \in 1..Len(Digitos) : Digitos[i] = c

DigitVal(c) == (CHOOSE i \in 1..Len(Digitos) : Digitos[i] = c) - 1

IsDigits(s) == s # <<>> /\ \A i \in 1..Len(s) : IsDigit(s[i])

RECURSIVE NumVal(_)
NumVal(s) ==
  IF s = <<>> THEN 0
  ELSE NumVal(SubSeq(s, 1, Len(s) - 1)) * 10 + DigitVal(s[Len(s)])

RECURSIVE Pow10(_)
Pow10(k) == IF k = 0 THEN 1 ELSE 10 * Pow10(k - 1)

IndexOf(s, c) ==
  IF \E i \in 1..Len(s) : s[i] = c
  THEN CHOOSE i \in 1..Len(s) : s[i] = c /\ \A j \in 1..(i - 1) : s[j] # c
  ELSE 0

(***************************************************************************)
(* Python objects: None for a cell or a value, exact floats, dates         *)
(***************************************************************************)
Nulo == <<"None">>

Nenhum == [k |-> "None", n |-> 0, d |-> 1]

NaN == [k |-> "nan", n |-> 0, d |-> 1]

Inf(sg) == [k |-> "inf", n |-> sg, d |-> 1]

Abs(x) == IF x < 0 THEN -x ELSE x

RECURSIVE GCD(_, _)
GCD(a, b) == IF b = 0 THEN a ELSE GCD(b, a % b)

Fin(n, d) ==
  LET g == GCD(Abs(n), d)
  IN  [k |-> "fin", n |-> n \div g, d |-> d \div g]

Zero == Fin(0, 1)

\* a + b on floats
FAdd(a, b) ==
  IF a.k = "nan" \/ b.k = "nan" THEN NaN
  ELSE IF a.k = "inf" /\ b.k = "inf" THEN (IF a.n = b.n THEN a ELSE NaN)
  ELSE IF a.k = "inf" THEN a
  ELSE IF b.k = "inf" THEN b
  ELSE Fin(a.n * b.d + b.n * a.d, a.d * b.d)

\* a > b on floats; every comparison with NaN is false
FGt(a, b) ==
  IF a.k = "nan" \/ b.k = "nan" THEN FALSE
  ELSE IF a.k = "inf" THEN a.n = 1 /\ ~(b.k = "inf" /\ b.n = 1)
  ELSE IF b.k = "inf" THEN b.n = -1
  ELSE a.n * b.d > b.n * a.d

\* a / c for a float a and a positive count c
FDivInt(a, c) == IF a.k = "fin" THEN Fin(a.n, a.d * c) ELSE a

\* float(txt) on stripped text: [ok |-> FALSE] stands for ValueError.
\* Exponents ("1e3") and digit-group underscores are left out; no cell text
\* of the model contains them.
PyFloat(txt) ==
  LET signed == txt # <<>> /\ txt[1] \in {"+", "-"}
      sg     == IF signed /\ txt[1] = "-" THEN -1 ELSE 1
      body   == IF signed THEN Tail(txt) ELSE txt
      low    == Lower(body)
      p      == IndexOf(body, ".")
      ip     == IF p = 0 THEN body ELSE SubSeq(body, 1, p - 1)
      fp     == IF p = 0 THEN <<>> ELSE SubSeq(body, p + 1, Len(body))
      okNum  == /\ ip = <<>> \/ IsDigits(ip)
                /\ fp = <<>> \/ IsDigits(fp)
                /\ ip # <<>> \/ fp # <<>>
  IN  IF low = <<"i","n","f">> \/ low = <<"i","n","f","i","n","i","t","y">>
        THEN [ok |-> TRUE, v |-> Inf(sg)]
      ELSE IF low = <<"n","a","n">> THEN [ok |-> TRUE, v |-> NaN]
      ELSE IF okNum
        THEN [ok |-> TRUE,
              v  |-> Fin(sg * (NumVal(ip) * Pow10(Len(fp)) + NumVal(fp)),
                         Pow10(Len(fp)))]
      ELSE [ok |-> FALSE, v |-> Nenhum]

ToFloat(s) ==
  IF s = Nulo THEN Nenhum
  ELSE LET txt == ReplaceComma(Strip(s))
       IN  IF txt = <<>> \/ txt = <<"-">> \/ Lower(txt) = <<"n","a">>
             THEN Nenhum
           ELSE IF PyFloat(txt).ok THEN PyFloat(txt).v
           ELSE Nenhum

IsLeap(y) == (y % 4 = 0 /\ y % 100 # 0) \/ y % 400 = 0

DiasNoMes(y, m) ==
  IF m = 2 THEN (IF IsLeap(y) THEN 29 ELSE 28)
  ELSE IF m \in {4, 6, 9, 11} THEN 30
  ELSE 31

SemData == [ok |-> FALSE, y |-> 0, m |-> 0, d |-> 0]

\* datetime.strptime(txt.strip(), "%d/%m/%Y").date(); ok = FALSE stands for
\* the exception (ValueError, or AttributeError when the cell is None)
ParseDataBr(txt) ==
  IF txt = Nulo THEN SemData
  ELSE
    LET s    == Strip(txt)
        p1   == IndexOf(s, "/")
        dd   == SubSeq(s, 1, p1 - 1)
        rest == SubSeq(s, p1 + 1, Len(s))
        p2   == IndexOf(rest, "/")
        mm   == SubSeq(rest, 1, p2 - 1)
        yy   == SubSeq(rest, p2 + 1, Len(rest))
    IN  IF /\ p1 > 0 /\ p2 > 0
           /\ IsDigits(dd) /\ Len(dd) <= 2 /\ NumVal(dd) \in 1..31
           /\ IsDigits(mm) /\ Len(mm) <= 2 /\ NumVal(mm) \in 1..12
           /\ IsDigits(yy) /\ Len(yy) = 4 /\ NumVal(yy) >= 1
           /\ NumVal(dd) <= DiasNoMes(NumVal(yy), NumVal(mm))
        THEN [ok |-> TRUE, y |-> NumVal(yy), m |-> NumVal(mm), d |-> NumVal(dd)]
        ELSE SemData

\* (year, month) pairs and dates compared as Python compares tuples and dates
ParLe(a, b) == a[1] < b[1] \/ (a[1] = b[1] /\ a[2] <= b[2])

DataLt(a, b) ==
  \/ a.y < b.y
  \/ a.y = b.y /\ a.m < b.m
  \/ a.y = b.y /\ a.m = b.m /\ a.d < b.d

\* mutant: month and year each compared with their own bounds
DentroPeriodoCampoACampo(d, mes_ini, ano_ini, mes_fim, ano_fim) ==
  /\ ano_ini <= d.y /\ d.y <= ano_fim
  /\ mes_ini <= d.m /\ d.m <= mes_fim

DentroPeriodo(d, mes_ini, ano_ini, mes_fim, ano_fim) ==
  LET ini == <<ano_ini, mes_ini>>
      fim == <<ano_fim, mes_fim>>
      cur == <<d.y, d.m>>
  IN  ParLe(ini, cur) /\ ParLe(cur, fim)

(***************************************************************************)
(* Header resolution: _mapear_colunas                                      *)
(***************************************************************************)
RECURSIVE Achar(_, _)
Achar(header, prefixos) ==
  IF prefixos = <<>> THEN Nulo
  ELSE LET pref == Head(prefixos)
           hit(i) == StartsWith(Lower(Strip(header[i])), pref)
       IN  IF \E i \in 1..Len(header) : hit(i)
           THEN header[CHOOSE i \in 1..Len(header) :
                         hit(i) /\ \A j \in 1..(i - 1) : ~hit(j)]
           ELSE Achar(header, Tail(prefixos))

PrefData == <<<<"d","a","t","a">>>>
PrefPrecip == <<<<"p","r","e","c","i","p">>, <<"p","r","e","c","i","p","i","t">>>>
PrefMaxima == <<<<"m","a","x","i","m","a">>, <<"t","m","a","x">>, <<"t","e","m","p","_","m","a","x">>>>
PrefMax == <<<<"m","a","x">>>>
PrefMinima == <<<<"m","i","n","i","m","a">>, <<"t","m","i","n">>, <<"t","e","m","p","_","m","i","n">>>>
PrefMin == <<<<"m","i","n">>>>
PrefTempMedia == <<<<"t","e","m","p","_","m","e","d","i","a">>, <<"t","m","e","d">>, <<"t","e","m","p","m","e","d">>,
                   <<"t","e","m","p","e","r","a","t","u","r","a"," ","m","é","d","i","a">>, <<"m","e","d","i","a">>>>
PrefUmRelativa == <<<<"u","m","_","r","e","l","a","t","i","v","a">>, <<"u","m","i","d","a","d","e">>, <<"u","r">>>>
PrefVelVento == <<<<"v","e","l">>, <<"v","e","n","t","o">>, <<"v","e","l","_","v","e","n","t","o">>, <<"v","e","l","o","c","i","d","a","d","e">>>>

SemMapa == [data |-> <<>>, precip |-> <<>>, maxima |-> <<>>, minima |-> <<>>,
            temp_media |-> <<>>, um_relativa |-> <<>>, vel_vento |-> <<>>]

Ou(col, padrao) == IF col # Nulo THEN col ELSE padrao

\* mutant: a missing precipitation column is tolerated like a missing maxima
MapearColunasSemPrecip(header) ==
  IF Achar(header, PrefData) = Nulo THEN [erro |-> "data", mapa |-> SemMapa]
  ELSE [erro |-> "",
        mapa |-> [data        |-> Achar(header, PrefData),
                  precip      |-> Ou(Achar(header, PrefPrecip), <<"p","r","e","c","i","p">>),
                  maxima      |-> Ou(Achar(header, PrefMaxima),
                                     Ou(Achar(header, PrefMax), <<"m","a","x","i","m","a">>)),
                  minima      |-> Ou(Achar(header, PrefMinima),
                                     Ou(Achar(header, PrefMin), <<"m","i","n","i","m","a">>)),
                  temp_media  |-> Ou(Achar(header, PrefTempMedia), <<>>),
                  um_relativa |-> Ou(Achar(header, PrefUmRelativa), <<>>),
                  vel_vento   |-> Ou(Achar(header, PrefVelVento), <<>>)]]

\* erro = "" on success, else the field whose KeyError is raised
MapearColunas(header) ==
  IF Achar(header, PrefData) = Nulo THEN [erro |-> "data", mapa |-> SemMapa]
  ELSE IF Achar(header, PrefPrecip) = Nulo
    THEN [erro |-> "precip", mapa |-> SemMapa]
  ELSE [erro |-> "",
        mapa |-> [data        |-> Achar(header, PrefData),
                  precip      |-> Achar(header, PrefPrecip),
                  maxima      |-> Ou(Achar(header, PrefMaxima),
                                     Ou(Achar(header, PrefMax), <<"m","a","x","i","m","a">>)),
                  minima      |-> Ou(Achar(header, PrefMinima),
                                     Ou(Achar(header, PrefMin), <<"m","i","n","i","m","a">>)),
                  temp_media  |-> Ou(Achar(header, PrefTempMedia), <<>>),
                  um_relativa |-> Ou(Achar(header, PrefUmRelativa), <<>>),
                  vel_vento   |-> Ou(Achar(header, PrefVelVento), <<>>)]]

(***************************************************************************)
(* Record loading: carregar_dados_csv                                      *)
(***************************************************************************)
\* csv.DictReader row as a dict: the last column of that name wins, a column
\* the row is too short for holds None, a name outside the header is missing
LinGet(header, lin, nome, padrao) ==
  IF \E i \in 1..Len(header) : header[i] = nome
  THEN LET i == CHOOSE i \in 1..Len(header) :
                  header[i] = nome /\ \A j \in (i + 1)..Len(header) : header[j] # nome
       IN  IF i <= Len(lin) THEN lin[i] ELSE Nulo
  ELSE padrao

\* mutant: a column the row does not have reads as "0" instead of ""
CampoPadraoZero(header, lin, col) ==
  IF col # <<>> THEN ToFloat(LinGet(header, lin, col, <<"0">>)) ELSE Nenhum

Campo(header, lin, col) ==
  IF col # <<>> THEN ToFloat(LinGet(header, lin, col, <<>>)) ELSE Nenhum

Registro(header, mapa, lin, d) ==
  [data        |-> [y |-> d.y, m |-> d.m, d |-> d.d],
   precip      |-> ToFloat(LinGet(header, lin, mapa.precip, <<>>)),
   maxima      |-> Campo(header, lin, mapa.maxima),
   minima      |-> Campo(header, lin, mapa.minima),
   temp_media  |-> Campo(header, lin, mapa.temp_media),
   um_relativa |-> Campo(header, lin, mapa.um_relativa),
   vel_vento   |-> Campo(header, lin, mapa.vel_vento)]

\* mutant: the loop ends at the first row whose date does not parse
RECURSIVE LerLinhasAteErro(_, _, _)
LerLinhasAteErro(header, mapa, linhas) ==
  IF linhas = <<>> THEN <<>>
  ELSE LET lin == Head(linhas)
           d   == ParseDataBr(LinGet(header, lin, mapa.data, Nulo))
       IN  IF ~d.ok THEN <<>>
           ELSE <<Registro(header, mapa, lin, d)>>
                  \o LerLinhasAteErro(header, mapa, Tail(linhas))

RECURSIVE LerLinhas(_, _, _)
LerLinhas(header, mapa, linhas) ==
  IF linhas = <<>> THEN <<>>
  ELSE LET lin == Head(linhas)
           d   == ParseDataBr(LinGet(header, lin, mapa.data, Nulo))
       IN  IF ~d.ok THEN LerLinhas(header, mapa, Tail(linhas))
           ELSE <<Registro(header, mapa, lin, d)>>
                  \o LerLinhas(header, mapa, Tail(linhas))

\* arq = [existe, header, linhas]; erro = "" on success
CarregarDadosCsv(arq) ==
  IF ~arq.existe
    THEN [erro |-> "FileNotFoundError", mapa |-> SemMapa, registros |-> <<>>]
  ELSE LET mc == MapearColunas(arq.header)
       IN  IF mc.erro # ""
             THEN [erro |-> "KeyError", mapa |-> SemMapa, registros |-> <<>>]
           ELSE [erro |-> "", mapa |-> mc.mapa,
                 registros |-> LerLinhas(arq.header, mc.mapa, arq.linhas)]

(***************************************************************************)
(* Interval filter: filtrar_por_intervalo                                  *)
(***************************************************************************)
RECURSIVE Filtrar(_, _, _, _, _)
Filtrar(regs, mes_ini, ano_ini, mes_fim, ano_fim) ==
  IF regs = <<>> THEN <<>>
  ELSE (IF DentroPeriodo(Head(regs).data, mes_ini, ano_ini, mes_fim, ano_fim)
          THEN <<Head(regs)>> ELSE <<>>)
       \o Filtrar(Tail(regs), mes_ini, ano_ini, mes_fim, ano_fim)

\* list.sort(key = date): stable, ascending
RECURSIVE Inserir(_, _)
Inserir(ord, r) ==
  IF ord = <<>> THEN <<r>>
  ELSE IF DataLt(r.data, Head(ord).data) THEN <<r>> \o ord
  ELSE <<Head(ord)>> \o Inserir(Tail(ord), r)

RECURSIVE SortPorData(_)
SortPorData(regs) ==
  IF regs = <<>> THEN <<>>
  ELSE Inserir(SortPorData(SubSeq(regs, 1, Len(regs) - 1)), regs[Len(regs)])

\* mutant: the argument list itself is sorted
FiltrarPorIntervaloNoLugar(regs, mes_ini, ano_ini, mes_fim, ano_fim) ==
  [ret       |-> SortPorData(Filtrar(regs, mes_ini, ano_ini, mes_fim, ano_fim)),
   registros |-> SortPorData(regs)]

\* ret is the returned list; registros is the argument list as the call leaves it
FiltrarPorIntervalo(regs, mes_ini, ano_ini, mes_fim, ano_fim) ==
  [ret       |-> SortPorData(Filtrar(regs, mes_ini, ano_ini, mes_fim, ano_fim)),
   registros |-> regs]

(***************************************************************************)
(* Wettest month: mes_mais_chuvoso                                         *)
(***************************************************************************)
\* soma_por_mes as the sequence of its items in insertion order
Acumular(soma, chave, p) ==
  IF \E i \in 1..Len(soma) : soma[i].chave = chave
  THEN [i \in 1..Len(soma) |->
          IF soma[i].chave = chave
          THEN [chave |-> chave, total |-> FAdd(soma[i].total, p)]
          ELSE soma[i]]
  ELSE Append(soma, [chave |-> chave, total |-> FAdd(Zero, p)])

RECURSIVE SomaPorMes(_)
SomaPorMes(regs) ==
  IF regs = <<>> THEN <<>>
  ELSE LET r    == regs[Len(regs)]
           soma == SomaPorMes(SubSeq(regs, 1, Len(regs) - 1))
       IN  IF r.precip.k = "None" THEN soma
           ELSE Acumular(soma, <<r.data.y, r.data.m>>, r.precip)

\* max(items, key = total): the first item no later item exceeds
RECURSIVE MaxItem(_)
MaxItem(itens) ==
  IF Len(itens) = 1 THEN itens[1]
  ELSE LET m == MaxItem(SubSeq(itens, 1, Len(itens) - 1))
       IN  IF FGt(itens[Len(itens)].total, m.total) THEN itens[Len(itens)] ELSE m

\* mutant: an absent precipitation counts as 0.0 instead of being skipped
MesMaisChuvosoSemFiltro(regs) ==
  LET soma == SomaPorMes([i \in 1..Len(regs) |->
                [regs[i] EXCEPT !.precip = IF @.k = "None" THEN Zero ELSE @]])
  IN  IF soma = <<>>
        THEN [erro |-> "ValueError", ano |-> 0, mes |-> 0, total |-> Nenhum]
      ELSE [erro |-> "", ano |-> MaxItem(soma).chave[1],
            mes |-> MaxItem(soma).chave[2], total |-> MaxItem(soma).total]

\* mutant: among equal totals the last item wins
RECURSIVE MaxItemUltimo(_)
MaxItemUltimo(itens) ==
  IF Len(itens) = 1 THEN itens[1]
  ELSE LET m == MaxItemUltimo(SubSeq(itens, 1, Len(itens) - 1))
       IN  IF FGt(m.total, itens[Len(itens)].total) THEN m ELSE itens[Len(itens)]

MesMaisChuvosoUltimo(regs) ==
  LET soma == SomaPorMes(regs)
  IN  IF soma = <<>>
        THEN [erro |-> "ValueError", ano |-> 0, mes |-> 0, total |-> Nenhum]
      ELSE [erro |-> "", ano |-> MaxItemUltimo(soma).chave[1],
            mes |-> MaxItemUltimo(soma).chave[2],
            total |-> MaxItemUltimo(soma).total]

\* erro = "ValueError" when the grouping is empty
MesMaisChuvoso(regs) ==
  LET soma == SomaPorMes(regs)
  IN  IF soma = <<>>
        THEN [erro |-> "ValueError", ano |-> 0, mes |-> 0, total |-> Nenhum]
      ELSE [erro |-> "", ano |-> MaxItem(soma).chave[1],
            mes |-> MaxItem(soma).chave[2], total |-> MaxItem(soma).total]

(***************************************************************************)
(* Minimum-temperature means 2006-2016: medias_minimas_mes_2006_2016,      *)
(* plotar_barras_medias_minimas, media_geral                               *)
(***************************************************************************)
AnoJanelaIni == 2006
AnoJanelaFim == 2016

RECURSIVE Vals(_, _, _)
Vals(regs, ano, mes) ==
  IF regs = <<>> THEN <<>>
  ELSE LET r == regs[Len(regs)]
           v == Vals(SubSeq(regs, 1, Len(regs) - 1), ano, mes)
       IN  IF r.data.y = ano /\ r.data.m = mes /\ r.minima.k # "None"
           THEN Append(v, r.minima) ELSE v

RECURSIVE Sum(_)
Sum(lista) ==
  IF lista = <<>> THEN Zero
  ELSE FAdd(Sum(SubSeq(lista, 1, Len(lista) - 1)), lista[Len(lista)])

\* mutant: the window starts one year early
MediasMinimasMesJanela2005(regs, mes) ==
  IF ~(1 <= mes /\ mes <= 12) THEN [erro |-> "ValueError", medias |-> <<>>]
  ELSE [erro   |-> "",
        medias |-> [ano \in {a \in (AnoJanelaIni - 1)..AnoJanelaFim :
                               Vals(regs, a, mes) # <<>>} |->
                      FDivInt(Sum(Vals(regs, ano, mes)),
                              Len(Vals(regs, ano, mes)))]]

\* erro = "ValueError" for a month outside 1..12; medias is the dict ano -> media
MediasMinimasMes(regs, mes) ==
  IF ~(1 <= mes /\ mes <= 12) THEN [erro |-> "ValueError", medias |-> <<>>]
  ELSE [erro   |-> "",
        medias |-> [ano \in {a \in AnoJanelaIni..AnoJanelaFim :
                               Vals(regs, a, mes) # <<>>} |->
                      FDivInt(Sum(Vals(regs, ano, mes)),
                              Len(Vals(regs, ano, mes)))]]

RECURSIVE SumAnos(_, _)
SumAnos(medias, anos) ==
  IF anos = {} THEN Zero
  ELSE LET a == CHOOSE x \in anos : \A z \in anos : z <= x
       IN  FAdd(SumAnos(medias, anos \ {a}), medias[a])

MediaGeral(medias) ==
  IF DOMAIN medias = {} THEN Nenhum
  ELSE FDivInt(SumAnos(medias, DOMAIN medias), Cardinality(DOMAIN medias))

\* the message printed and whether a PNG file name is returned
PlotarBarras(medias, mes, mpl) ==
  IF ~mpl THEN [msg |-> "matplotlib nao esta disponivel", arq |-> FALSE]
  ELSE IF DOMAIN medias = {} THEN [msg |-> "Sem dados para plotar", arq |-> FALSE]
  ELSE [msg |-> "Grafico salvo", arq |-> TRUE]

(***************************************************************************)
(* Inputs: the CSV files and the menu answers the runs are checked on      *)
(***************************************************************************)
MaxLinhas == 3

Cabecalhos ==
  { <<<<"d","a","t","a">>, <<"p","r","e","c","i","p">>, <<"m","a","x","i","m","a">>, <<"m","i","n","i","m","a">>>>,
    <<<<" ","D","a","t","a">>, <<"P","R","E","C","I","P","I","T","A","C","A","O">>, <<"t","m","i","n">>, <<"u","m","i","d","a","d","e">>>>,
    <<<<"d","a","t","a">>, <<"p","r","e","c","i","p">>, <<"v","e","n","t","o">>, <<"m","e","d","i","a">>>>,
    <<<<"d","a","t","a">>, <<"c","h","u","v","a">>, <<"m","a","x","i","m","a">>, <<"m","i","n","i","m","a">>>>,
    <<<<"d","i","a">>, <<"p","r","e","c","i","p">>, <<"m","a","x","i","m","a">>, <<"m","i","n","i","m","a">>>>,
    <<>> }

Linhas ==
  { <<<<"0","1","/","0","1","/","2","0","1","0">>, <<"1","0",".","0">>, <<"2","5",".","0">>, <<"1","5",".","0">>>>,
    <<<<"1","5","/","0","1","/","2","0","1","0">>, <<>>, <<"-">>, <<"N","A">>>>,
    <<<<"2","0","/","0","1","/","2","0","1","0">>, <<"5",",","5">>, <<"a","b","c">>, <<"1","0">>>>,
    <<<<"0","3","/","0","2","/","2","0","1","0">>, <<"3",".","0">>, <<>>, <<"1","2",".","0">>>>,
    <<<<"3","1","/","1","3","/","2","0","0","0">>, <<"7">>, <<"1">>, <<"1">>>>,
    <<<<" ","1","/","1","/","2","0","0","5"," ">>, <<"n","a","n">>, <<"8">>, <<"8">>>>,
    <<<<"3","1","/","1","2","/","2","0","1","6">>, <<"1","0">>, <<"i","n","f">>>> }

Arquivos ==
  {[existe |-> FALSE, header |-> <<>>, linhas |-> <<>>]}
  \cup {[existe |-> TRUE, header |-> h, linhas |-> l] :
          h \in Cabecalhos, l \in UNION {[1..n -> Linhas] : n \in 0..MaxLinhas}}

\* (mes, ano) answers for the interval view; months answered to options 3-5
Periodos == {<<12, 2009>>, <<1, 2010>>, <<2, 2010>>}
Modos == {1, 4}
MesesMenu == {1, 2, 12}

(***************************************************************************)
(* The program: main() and the menu() loop                                 *)
(***************************************************************************)
VARIABLES arquivo, pc, registros, mapa, saida

vars == <<arquivo, pc, registros, mapa, saida>>

\* pc: "main" before the load, "menu" at the option prompt, "iterado" when an
\* option's branch has run, "encerrado" after a return from main(), "excecao"
\* after an exception no handler caught.
\* saida: what the current step printed or computed: option, answers read,
\* message, value
Saida(op, args, msg, ret) == [op |-> op, args |-> args, msg |-> msg, ret |-> ret]

Init ==
  /\ arquivo \in Arquivos
  /\ pc = "main"
  /\ registros = <<>>
  /\ mapa = SemMapa
  /\ saida = Saida("", <<>>, "", <<>>)

Main ==
  /\ pc = "main"
  /\ \E c \in {CarregarDadosCsv(arquivo)} :
         IF c.erro # ""
         THEN /\ pc' = "encerrado"
              /\ saida' = Saida("carregar", <<>>, c.erro, <<>>)
              /\ UNCHANGED <<registros, mapa>>
         ELSE /\ pc' = "menu"
              /\ registros' = c.registros
              /\ mapa' = c.mapa
              /\ saida' = Saida("carregar", <<>>, "",
                                IF c.registros # <<>>
                                THEN <<Len(c.registros), c.registros[1].data,
                                       c.registros[Len(c.registros)].data>>
                                ELSE <<>>)
  /\ UNCHANGED arquivo

\* the while loop of menu() starts its next iteration and prints the options
MenuLoop ==
  /\ pc = "iterado"
  /\ pc' = "menu"
  /\ saida' = Saida("menu", <<>>, "", <<>>)
  /\ UNCHANGED <<arquivo, registros, mapa>>

OpSair ==
  /\ pc = "menu"
  /\ pc' = "encerrado"
  /\ saida' = Saida("sair", <<>>, "Encerrando", <<>>)
  /\ UNCHANGED <<arquivo, registros, mapa>>

OpIntervalo ==
  /\ pc = "menu"
  /\ \E ini \in Periodos, fim \in Periodos, modo \in Modos :
       IF ~ParLe(<<ini[2], ini[1]>>, <<fim[2], fim[1]>>)
       THEN /\ saida' = Saida("intervalo", <<ini[1], ini[2], fim[1], fim[2]>>,
                              "Intervalo invalido", <<>>)
            /\ registros' = registros
       ELSE \E f \in {FiltrarPorIntervalo(registros, ini[1], ini[2], fim[1], fim[2])} :
                /\ saida' = Saida("intervalo",
                                  <<ini[1], ini[2], fim[1], fim[2], modo>>,
                                  IF f.ret = <<>> THEN "Nenhum registro" ELSE "",
                                  f.ret)
                /\ registros' = f.registros
  /\ pc' = "iterado"
  /\ UNCHANGED <<arquivo, mapa>>

\* the ValueError of mes_mais_chuvoso is caught nowhere: it leaves menu() and main()
OpMesMaisChuvoso ==
  /\ pc = "menu"
  /\ \E r \in {MesMaisChuvoso(registros)} :
         IF r.erro # ""
         THEN /\ pc' = "excecao"
              /\ saida' = Saida("chuvoso", <<>>, r.erro, <<>>)
         ELSE /\ pc' = "iterado"
              /\ saida' = Saida("chuvoso", <<>>, "", <<r.ano, r.mes, r.total>>)
  /\ UNCHANGED <<arquivo, registros, mapa>>

OpMedias ==
  /\ pc = "menu"
  /\ \E mes \in MesesMenu :
       \E r \in {MediasMinimasMes(registros, mes)} :
           saida' = Saida("medias", <<mes>>,
                          IF DOMAIN r.medias = {} THEN "Sem dados suficientes" ELSE "",
                          r.medias)
  /\ pc' = "iterado"
  /\ UNCHANGED <<arquivo, registros, mapa>>

\* _HAS_MPL, whether matplotlib could be imported, is read from the environment
OpGrafico ==
  /\ pc = "menu"
  /\ \E mes \in MesesMenu, mpl \in BOOLEAN :
       \E r \in {MediasMinimasMes(registros, mes)} :
         \E g \in {PlotarBarras(r.medias, mes, mpl)} :
           saida' = Saida("grafico", <<mes>>, g.msg, g.arq)
  /\ pc' = "iterado"
  /\ UNCHANGED <<arquivo, registros, mapa>>

OpMediaGeral ==
  /\ pc = "menu"
  /\ \E mes \in MesesMenu :
       \E r \in {MediasMinimasMes(registros, mes)} :
         \E mg \in {MediaGeral(r.medias)} :
           saida' = Saida("media_geral", <<mes>>,
                          IF mg.k = "None" THEN "Sem dados suficientes" ELSE "",
                          mg)
  /\ pc' = "iterado"
  /\ UNCHANGED <<arquivo, registros, mapa>>

Next ==
  \/ Main
  \/ OpIntervalo
  \/ OpMesMaisChuvoso
  \/ OpMedias
  \/ OpGrafico
  \/ OpMediaGeral
  \/ OpSair
  \/ MenuLoop

Spec == Init /\ [][Next]_vars

(***************************************************************************)
(* Properties                                                              *)
(***************************************************************************)
CamposNumericos ==
  {"precip", "maxima", "minima", "temp_media", "um_relativa", "vel_vento"}

Chave(r) == <<r.data.y, r.data.m>>

\* the (year, month) groups that have a record with precipitation present
Grupos == {Chave(registros[i]) :
             i \in {j \in 1..Len(registros) : registros[j].precip.k # "None"}}

\* sum of the precipitation present in the first n records of group g
RECURSIVE SomaAte(_, _)
SomaAte(g, n) ==
  IF n = 0 THEN Zero
  ELSE IF Chave(registros[n]) = g /\ registros[n].precip.k # "None"
    THEN FAdd(SomaAte(g, n - 1), registros[n].precip)
  ELSE SomaAte(g, n - 1)

TotalGrupo(g) == SomaAte(g, Len(registros))

\* index of the first record that contributes to group g
Primeiro(g) ==
  CHOOSE i \in 1..Len(registros) :
    /\ Chave(registros[i]) = g /\ registros[i].precip.k # "None"
    /\ \A j \in 1..(i - 1) :
         ~(Chave(registros[j]) = g /\ registros[j].precip.k # "None")

ChuvosoOk == saida.op = "chuvoso" /\ pc = "iterado"

GrupoRet == <<saida.ret[1], saida.ret[2]>>

\* C1: mes_mais_chuvoso fails with the no-valid-precipitation error exactly
\* when no record has precipitation present; otherwise it returns a
\* (year, month) that has such a record, with the sum of the present
\* precipitation of that group as total, and no other group's total is larger.
C1_WettestMonth ==
  saida.op = "chuvoso" =>
    IF Grupos = {}
    THEN pc = "excecao" /\ saida.msg = "ValueError"
    ELSE /\ pc = "iterado" /\ saida.msg = ""
         /\ GrupoRet \in Grupos
         /\ saida.ret[3] = TotalGrupo(GrupoRet)
         /\ \A h \in Grupos \ {GrupoRet} : ~FGt(TotalGrupo(h), saida.ret[3])

\* a returned month that also holds a record whose precipitation is absent,
\* beside another month with a smaller total
C1_Witness ==
  /\ ChuvosoOk
  /\ \E h \in Grupos : FGt(saida.ret[3], TotalGrupo(h))
  /\ \E i \in 1..Len(registros) :
       Chave(registros[i]) = GrupoRet /\ registros[i].precip.k = "None"

\* the groups that share the returned total
Empatados == {h \in Grupos : TotalGrupo(h) = saida.ret[3]}

\* C9 as stated: among the groups that share the maximal total, the one
\* encountered last is returned.
C9_TieLastWins ==
  (ChuvosoOk /\ Cardinality(Empatados) >= 2) =>
    \A h \in Empatados : Primeiro(h) <= Primeiro(GrupoRet)

\* C9 as amended: among the groups that share the returned (maximal) total,
\* the one whose first contributing record comes earliest is returned.
C9_TieFirstWins ==
  (ChuvosoOk /\ Cardinality(Empatados) >= 2) =>
    /\ GrupoRet \in Empatados
    /\ \A h \in Empatados : Primeiro(GrupoRet) <= Primeiro(h)

\* two months tie for the maximum and the earlier one is returned
C9_Witness ==
  /\ ChuvosoOk
  /\ Cardinality(Empatados) >= 2
  /\ saida.ret[3].k = "fin"
  /\ \E h \in Empatados : Primeiro(GrupoRet) < Primeiro(h)

\* indices of the records of year y and month m whose minima is present
ComMinima(y, m) ==
  {i \in 1..Len(registros) :
     /\ registros[i].data.y = y /\ registros[i].data.m = m
     /\ registros[i].minima.k # "None"}

RECURSIVE SomaMinimas(_)
SomaMinimas(idx) ==
  IF idx = {} THEN Zero
  ELSE LET i == CHOOSE x \in idx : \A z \in idx : x <= z
       IN  FAdd(registros[i].minima, SomaMinimas(idx \ {i}))

AnosDosRegistros == {registros[i].data.y : i \in 1..Len(registros)}

\* C2: the keys of medias_minimas_mes_2006_2016 are exactly the years of
\* 2006..2016 with a record of that month whose minima is present, and each
\* value is the arithmetic mean of those minima.
C2_YearlyMinAverages ==
  saida.op = "medias" =>
    /\ DOMAIN saida.ret =
         {y \in AnosDosRegistros :
            2006 <= y /\ y <= 2016 /\ ComMinima(y, saida.args[1]) # {}}
    /\ \A y \in DOMAIN saida.ret :
         saida.ret[y] = FDivInt(SomaMinimas(ComMinima(y, saida.args[1])),
                                Cardinality(ComMinima(y, saida.args[1])))

\* a year averaged over two observations, while a record of the same month
\* outside the window and a record without minima are left out
C2_Witness ==
  /\ saida.op = "medias"
  /\ \E y \in DOMAIN saida.ret : Cardinality(ComMinima(y, saida.args[1])) >= 2
  /\ \E y \in AnosDosRegistros \ DOMAIN saida.ret : ComMinima(y, saida.args[1]) # {}

Conta(seq, r) == Cardinality({i \in 1..Len(seq) : seq[i] = r})

Qualifica(r, mi, ai, mf, af) ==
  /\ ai < r.data.y \/ (ai = r.data.y /\ mi <= r.data.m)
  /\ r.data.y < af \/ (r.data.y = af /\ r.data.m <= mf)

FiltroOk(out, mi, ai, mf, af) ==
  /\ \A k \in 1..Len(registros) :
       Conta(out, registros[k]) =
         IF Qualifica(registros[k], mi, ai, mf, af)
         THEN Conta(registros, registros[k]) ELSE 0
  /\ \A k \in 1..Len(out) : \E j \in 1..Len(registros) : registros[j] = out[k]
  /\ \A i, j \in 1..Len(out) : i < j => ~DataLt(out[j].data, out[i].data)

\* C3: filtrar_por_intervalo returns exactly the records whose (year, month)
\* lies between (ano_ini, mes_ini) and (ano_fim, mes_fim), each as often as in
\* the input, in ascending date order; for every range, inverted ones too.
C3_IntervalFilter ==
  /\ (pc = "menu" /\ saida.op = "carregar") =>
       \A ini \in Periodos, fim \in Periodos :
         FiltroOk(FiltrarPorIntervalo(registros, ini[1], ini[2], fim[1], fim[2]).ret,
                  ini[1], ini[2], fim[1], fim[2])
  /\ (saida.op = "intervalo" /\ saida.msg # "Intervalo invalido") =>
       FiltroOk(saida.ret, saida.args[1], saida.args[2], saida.args[3], saida.args[4])

\* the view holds two records or more in another order than the input has
\* them, a record is left out, and the range spans a year boundary
C3_Witness ==
  /\ saida.op = "intervalo" /\ Len(saida.ret) >= 2
  /\ Len(saida.ret) < Len(registros)
  /\ saida.args[2] < saida.args[4]
  /\ saida.ret # Filtrar(registros, saida.args[1], saida.args[2],
                         saida.args[3], saida.args[4])

\* the date cell of row i, and the rows whose date cell parses
CelulaData(i) == LinGet(arquivo.header, arquivo.linhas[i], mapa.data, Nulo)

Validas == {i \in 1..Len(arquivo.linhas) : ParseDataBr(CelulaData(i)).ok}

\* the row the k-th record comes from: the k-th row with a date that parses
LinhaDe(k) == CHOOSE i \in Validas : Cardinality({j \in Validas : j <= i}) = k

\* C4: when the file exists and its header resolves, the load raises nothing
\* and yields one record per row whose date cell parses, in row order; the
\* date is the parsed date cell and each numeric field is the coercion of
\* that row's own cell of that field's column, whatever the other cells and
\* rows hold.
C4_LoadKeepsValidRows ==
  (saida.op = "carregar" /\ arquivo.existe
     /\ MapearColunas(arquivo.header).erro = "") =>
    /\ pc = "menu"
    /\ Len(registros) = Cardinality(Validas)
    /\ \A k \in 1..Len(registros) : \A i \in {LinhaDe(k)} :
         /\ \A d \in {ParseDataBr(CelulaData(i))} :
              registros[k].data = [y |-> d.y, m |-> d.m, d |-> d.d]
         /\ \A f \in CamposNumericos :
              registros[k][f] =
                IF mapa[f] = <<>> THEN Nenhum
                ELSE ToFloat(LinGet(arquivo.header, arquivo.linhas[i],
                                    mapa[f], <<>>))

\* a row with a malformed date between two rows that are kept, and a kept
\* record with an unparseable cell beside a parsed one
C4_Witness ==
  /\ saida.op = "carregar" /\ pc = "menu"
  /\ \E i, j, k \in 1..Len(arquivo.linhas) :
       i < j /\ j < k /\ i \in Validas /\ j \notin Validas /\ k \in Validas
  /\ \E k \in 1..Len(registros) :
       /\ registros[k].maxima.k = "None" /\ registros[k].minima.k = "fin"
       /\ LinGet(arquivo.header, arquivo.linhas[LinhaDe(k)],
                 mapa.maxima, <<>>) = <<"a","b","c">>

\* some header starts, trimmed and lower-cased, with one of the prefixes
TemPrefixo(prefixos) ==
  \E i \in 1..Len(arquivo.header), j \in 1..Len(prefixos) :
    StartsWith(Lower(Strip(arquivo.header[i])), prefixos[j])

ArquivoRuim ==
  \/ ~arquivo.existe
  \/ ~TemPrefixo(<<<<"d","a","t","a">>>>)
  \/ ~TemPrefixo(<<<<"p","r","e","c","i","p">>, <<"p","r","e","c","i","p","i","t">>>>)

\* C5: with the file missing, or no header with the prefix data, or none
\* with a precipitation prefix, the load fails with FileNotFoundError or
\* KeyError, no record list exists, and the run ends there: the menu is never
\* entered and no query runs.
C5_FailedLoadIsTerminal ==
  (ArquivoRuim /\ pc # "main") =>
    /\ pc = "encerrado"
    /\ saida.op = "carregar"
    /\ saida.msg = IF arquivo.existe THEN "KeyError" ELSE "FileNotFoundError"
    /\ registros = <<>>

\* a run ended by a header that has a date column but no precipitation column
C5_Witness ==
  /\ pc = "encerrado" /\ saida.msg = "KeyError"
  /\ TemPrefixo(<<<<"d","a","t","a">>>>)
  /\ arquivo.linhas # <<>>

PrefixosDe(f) ==
  CASE f = "maxima"      -> PrefMaxima \o PrefMax
    [] f = "minima"      -> PrefMinima \o PrefMin
    [] f = "temp_media"  -> PrefTempMedia
    [] f = "um_relativa" -> PrefUmRelativa
    [] f = "vel_vento"   -> PrefVelVento

CamposOpcionais == CamposNumericos \ {"precip"}

NomePadrao(f) == IF f = "maxima" THEN <<"m","a","x","i","m","a">> ELSE <<"m","i","n","i","m","a">>

C7_FiniteOrAbsent ==
  \A k \in 1..Len(registros), f \in CamposNumericos :
    registros[k][f].k \in {"fin", "None"}

\* C8 as stated: choosing the wettest month over records that all lack
\* precipitation shows a message and the session goes on; no exception ends it.
C8_NoDataNoCrash ==
  (saida.op = "chuvoso" /\ Grupos = {}) => pc = "iterado"

\* C10: once loaded, no menu operation changes the record list.
C10_RecordsReadOnly ==
  [][(pc \in {"menu", "iterado"}) => (registros' = registros)]_vars

\* an interval view that shows the records in date order while the loaded
\* list still holds them out of date order
C10_Witness ==
  /\ saida.op = "intervalo" /\ Len(saida.ret) >= 2
  /\ \E i, j \in 1..Len(registros) :
       i < j /\ DataLt(registros[j].data, registros[i].data)
       /\ \E a, b \in 1..Len(saida.ret) :
            a < b /\ saida.ret[a] = registros[j] /\ saida.ret[b] = registros[i]

====
